---- MODULE Spec2Model ----
(***************************************************************************)
(* QdrantWrapper (src/qdrantWrapper.py): a stateful facade over a vector   *)
(* database client.  The instance holds an optional active collection      *)
(* name, constructor defaults and a logging toggle; every method forwards  *)
(* one or more calls to the backend client.                                *)
(*                                                                         *)
(* The backend is the environment: each backend call answers "ok" or       *)
(* raises ResponseHandlingException / UnexpectedResponse.  Every method    *)
(* is one action; what it did (backend calls issued, log-sink calls, the   *)
(* value returned or the exception raised) is journalled in `last`.        *)
(***************************************************************************)
EXTENDS Integers, Sequences, FiniteSets, TLC

VARIABLES
    collection_name,   \* self.collection_name (active collection)
    distance,          \* self.distance
    vector_size,       \* self.vector_size
    print_logs,        \* self.print_logs
    exists,            \* collections present on the backend service
    pc,                \* "idle": ready for a call; "done": a call has just finished
    last,              \* journal of the call that has just finished
    prev_created       \* name created by the previous call when it was a successful create_collection

vars == <<collection_name, distance, vector_size, print_logs, exists, pc, last, prev_created>>

----------------------------------------------------------------------------
(* Bounds of the exploration *)
MaxPoints == 3
MaxBatch == 3

(* Program constants *)
DefaultVectorSize == 1536
SmallVectorSize == 4
DefaultLimit == 10
DefaultScoreThreshold == 0

----------------------------------------------------------------------------
(* Python values *)
None == "None"
Truthy(s) == s # None /\ s # ""

Names == {"a", "b"}
NameArgs == {None, ""} \cup Names

Distances == {"Dot", "Cosine"}
VectorSizes == {SmallVectorSize, DefaultVectorSize}

(* an argument that the caller may omit: <<>> when omitted, <<v>> when given *)
Opt(S) == {<<>>} \cup {<<v>> : v \in S}

(* exceptions *)
CollectionNameNotProvidedException == "CollectionNameNotProvidedException"
CollectionAlreadyExistsException == "CollectionAlreadyExistsException"
ResponseHandlingException == "ResponseHandlingException"
UnexpectedResponse == "UnexpectedResponse"
ValueError == "ValueError"

(* answers of one backend call *)
Failures == {ResponseHandlingException, UnexpectedResponse}
Responses == {"ok"} \cup Failures

(* the k-th answer of the backend within one method call; a backend that *)
(* is asked more often than the listed answers say answers "ok"          *)
Resp(faults, k) == IF k <= Len(faults) THEN faults[k] ELSE "ok"
Drop(s, k) == IF k >= Len(s) THEN <<>> ELSE SubSeq(s, k + 1, Len(s))

Min(x, y) == IF x <= y THEN x ELSE y

(* journal entry of one backend call *)
Call(fn, target, args, result) ==
    [fn |-> fn, collection_name |-> target, args |-> args, result |-> result]

NoCall == [op |-> "none", args |-> <<>>, active |-> None, outcome |-> "ok",
           ret |-> <<>>, calls |-> <<>>, logs |-> <<>>, iters |-> <<>>]

Journal(op, args, r) ==
    [op |-> op, args |-> args, active |-> collection_name, outcome |-> r.outcome,
     ret |-> r.ret, calls |-> r.calls, logs |-> r.logs, iters |-> r.iters]

Raised(exc) == [outcome |-> exc, ret |-> <<>>, calls |-> <<>>, logs |-> <<>>, iters |-> <<>>]

----------------------------------------------------------------------------
(* points; the ids are those of the example points *)
Ids == {1, 2}
Points == {[id |-> k] : k \in Ids}
PointLists == UNION {[1..n -> Points] : n \in 0..MaxPoints}
PointIds(pts) == [j \in DOMAIN pts |-> pts[j].id]

----------------------------------------------------------------------------
(* Initial state: the instance after __init__ succeeded, against a service *)
(* that may already hold collections.                                      *)
Init ==
    /\ collection_name \in NameArgs
    /\ distance \in Distances
    /\ vector_size \in VectorSizes
    /\ print_logs \in BOOLEAN
    /\ exists \in SUBSET Names
    /\ pc = "idle"
    /\ last = NoCall
    /\ prev_created = None

----------------------------------------------------------------------------
(* create_collection *)

(* qdrant_client.create_collection: a collection that is already there is *)
(* reported by UnexpectedResponse                                         *)
BackendCreate(name, fault) ==
    IF fault # "ok" THEN fault
    ELSE IF name \in exists THEN UnexpectedResponse
    ELSE "ok"

(* except UnexpectedResponse: raise CollectionAlreadyExistsException *)
CreateOutcomeUnmapped(result) == result
CreateOutcome(result) ==
    IF result = UnexpectedResponse THEN CollectionAlreadyExistsException ELSE result

(* the distance and the size requested when the call leaves them out *)
CreateDistance(distance_arg) ==
    IF distance_arg = <<>> THEN "Cosine" ELSE distance_arg[1]
CreateVectorSize(vector_size_arg) ==
    IF vector_size_arg = <<>> THEN DefaultVectorSize ELSE vector_size_arg[1]

create_collection_result(name, distance_arg, vector_size_arg, fault) ==
    IF ~Truthy(name) THEN Raised(CollectionNameNotProvidedException)
    ELSE LET result == BackendCreate(name, fault)
             call == Call("create_collection", name,
                          [size |-> CreateVectorSize(vector_size_arg),
                           distance |-> CreateDistance(distance_arg)], result)
         IN [outcome |-> CreateOutcome(result), ret |-> <<>>, calls |-> <<call>>,
             logs |-> IF result = "ok" /\ print_logs THEN <<"created">> ELSE <<>>,
             iters |-> <<>>]

create_collection ==
    /\ pc = "idle"
    /\ \E name \in NameArgs, distance_arg \in Opt(Distances),
          vector_size_arg \in Opt(VectorSizes), set_collection_name \in BOOLEAN,
          fault \in Responses :
         LET r == create_collection_result(name, distance_arg, vector_size_arg, fault) IN
           /\ last' = Journal("create_collection",
                              [collection_name |-> name, distance |-> distance_arg,
                               vector_size |-> vector_size_arg,
                               set_collection_name |-> set_collection_name], r)
           /\ exists' = IF r.outcome = "ok" THEN exists \cup {name} ELSE exists
           /\ collection_name' = IF r.outcome = "ok" /\ set_collection_name
                                 THEN name ELSE collection_name
    /\ pc' = "done"
    /\ UNCHANGED <<distance, vector_size, print_logs, prev_created>>

----------------------------------------------------------------------------
(* upsert_data *)
upsert_data_result(pointStructs, name, fault) ==
    LET Upsert(target) ==
            [outcome |-> fault, ret |-> <<>>,
             calls |-> <<Call("upsert", target,
                              [wait |-> TRUE, points |-> pointStructs], fault)>>,
             logs |-> IF fault = "ok" /\ print_logs
                      THEN <<"operation_info", "upserted">> ELSE <<>>,
             iters |-> <<>>]
    IN IF Truthy(name) THEN Upsert(name)
       ELSE IF Truthy(collection_name) THEN Upsert(collection_name)
       ELSE Raised(CollectionNameNotProvidedException)

upsert_data ==
    /\ pc = "idle"
    /\ \E pointStructs \in PointLists, name \in NameArgs, fault \in Responses :
         last' = Journal("upsert_data",
                         [pointStructs |-> pointStructs, collection_name |-> name],
                         upsert_data_result(pointStructs, name, fault))
    /\ pc' = "done"
    /\ UNCHANGED <<collection_name, distance, vector_size, print_logs, exists, prev_created>>

----------------------------------------------------------------------------
(* upsert_data_batches *)

(* pointStructs[i:i+batch_size], i counted from 0 *)
PointsBatchShort(pointStructs, i, batch_size) ==
    SubSeq(pointStructs, i + 1, Min(i + batch_size - 1, Len(pointStructs)))
PointsBatch(pointStructs, i, batch_size) ==
    SubSeq(pointStructs, i + 1, Min(i + batch_size, Len(pointStructs)))

(* except ResponseHandlingException: the failures of a chunk that are retried *)
BatchRetryOnAny == Failures
BatchRetryOn == {ResponseHandlingException}

(* the retry failed as well: break *)
SecondFailureContinue == "next"
SecondFailureStatus == "break"

(* one iteration of the for loop: the try, and the retry in its except   *)
(* clause.  status "next": go on with the next i; "break": leave the     *)
(* loop; "raise": the exception exc leaves upsert_data_batches.          *)
BatchIter(points_batch, target, faults) ==
    LET first == upsert_data_result(points_batch, target, Resp(faults, 1))
        retry == upsert_data_result(points_batch, target, Resp(faults, 2))
    IN IF first.outcome = "ok"
       THEN [status |-> "next", exc |-> "ok", ids |-> PointIds(points_batch),
             calls |-> first.calls, logs |-> first.logs, used |-> 1]
       ELSE IF first.outcome \notin BatchRetryOn
       THEN [status |-> "raise", exc |-> first.outcome, ids |-> <<>>,
             calls |-> first.calls, logs |-> first.logs, used |-> 1]
       ELSE IF retry.outcome = "ok"
       THEN [status |-> "next", exc |-> "ok", ids |-> PointIds(points_batch),
             calls |-> first.calls \o retry.calls,
             logs |-> first.logs \o <<"retrying">> \o retry.logs, used |-> 2]
       ELSE IF retry.outcome \in BatchRetryOn
       THEN [status |-> SecondFailureStatus, exc |-> "ok", ids |-> <<>>,
             calls |-> first.calls \o retry.calls,
             logs |-> first.logs \o <<"retrying">> \o retry.logs \o <<"failed_again">>,
             used |-> 2]
       ELSE [status |-> "raise", exc |-> retry.outcome, ids |-> <<>>,
             calls |-> first.calls \o retry.calls,
             logs |-> first.logs \o <<"retrying">> \o retry.logs, used |-> 2]

(* for i in range(0, len(pointStructs), batch_size), batch_size > 0;     *)
(* acc carries upserted_ids and the journal                              *)
RECURSIVE BatchLoop(_, _, _, _, _, _)
BatchLoop(pointStructs, batch_size, target, i, faults, acc) ==
    IF i >= Len(pointStructs)
    THEN [outcome |-> "ok", ret |-> acc.ids, calls |-> acc.calls,
          logs |-> acc.logs, iters |-> acc.iters]
    ELSE LET it == BatchIter(PointsBatch(pointStructs, i, batch_size), target, faults)
             acc2 == [ids |-> acc.ids \o it.ids, calls |-> acc.calls \o it.calls,
                      logs |-> acc.logs \o it.logs,
                      iters |-> acc.iters \o [j \in 1..Len(it.calls) |-> i]]
         IN IF it.status = "next"
            THEN BatchLoop(pointStructs, batch_size, target, i + batch_size,
                           Drop(faults, it.used), acc2)
            ELSE IF it.status = "break"
            THEN [outcome |-> "ok", ret |-> acc2.ids, calls |-> acc2.calls,
                  logs |-> acc2.logs, iters |-> acc2.iters]
            ELSE [outcome |-> it.exc, ret |-> <<>>, calls |-> acc2.calls,
                  logs |-> acc2.logs, iters |-> acc2.iters]

upsert_data_batches_result(pointStructs, batch_size, name, faults) ==
    LET empty == [ids |-> <<>>, calls |-> <<>>, logs |-> <<>>, iters |-> <<>>]
        Batches(target) ==
            IF batch_size = 0 THEN Raised(ValueError)
            ELSE IF batch_size < 0
            THEN [outcome |-> "ok", ret |-> <<>>, calls |-> <<>>, logs |-> <<>>,
                  iters |-> <<>>]
            ELSE BatchLoop(pointStructs, batch_size, target, 0, faults, empty)
    IN IF Truthy(name) THEN Batches(name)
       ELSE IF Truthy(collection_name) THEN Batches(collection_name)
       ELSE Raised(CollectionNameNotProvidedException)

(* the answers a backend can give to the upserts of n chunks: every     *)
(* sequence of answers that ends where the method stops asking          *)
RECURSIVE BatchResponses(_)
BatchResponses(n) ==
    IF n <= 0 THEN {<<>>}
    ELSE {<<UnexpectedResponse>>,
          <<ResponseHandlingException, ResponseHandlingException>>,
          <<ResponseHandlingException, UnexpectedResponse>>}
         \cup {<<"ok">> \o r : r \in BatchResponses(n - 1)}
         \cup {<<ResponseHandlingException, "ok">> \o r : r \in BatchResponses(n - 1)}

NumChunks(n, batch_size) ==
    IF batch_size <= 0 THEN 0 ELSE (n + batch_size - 1) \div batch_size

upsert_data_batches ==
    /\ pc = "idle"
    /\ \E pointStructs \in PointLists, batch_size \in (-1)..MaxBatch, name \in NameArgs :
         \E faults \in BatchResponses(NumChunks(Len(pointStructs), batch_size)) :
           last' = Journal("upsert_data_batches",
                           [pointStructs |-> pointStructs, batch_size |-> batch_size,
                            collection_name |-> name],
                           upsert_data_batches_result(pointStructs, batch_size, name, faults))
    /\ pc' = "done"
    /\ UNCHANGED <<collection_name, distance, vector_size, print_logs, exists, prev_created>>

----------------------------------------------------------------------------
(* search *)

QueryVectors == {"q1", "q2"}
Limits == {1, DefaultLimit}
Filters == {None, "f"}
ScoreThresholds == {DefaultScoreThreshold, 5}

(* what qdrant_client.search uses for keywords the call leaves out *)
ClientDefaultWithVectors == FALSE
ClientDefaultScoreThreshold == <<>>

(* the keywords of the backend query in the branch with an explicit name *)
SearchArgsExplicit(query_vector, limit, query_filter, with_vectors, score_threshold) ==
    [query_vector |-> query_vector, limit |-> limit, query_filter |-> query_filter,
     with_vectors |-> with_vectors, score_threshold |-> <<score_threshold>>]

(* the keywords of the backend query in the branch of the active collection *)
SearchArgsActive(query_vector, limit, query_filter, with_vectors, score_threshold) ==
    [query_vector |-> query_vector, limit |-> limit, query_filter |-> query_filter,
     with_vectors |-> ClientDefaultWithVectors,
     score_threshold |-> ClientDefaultScoreThreshold]

(* the retry failed as well: log and return [] *)
SearchGiveUpRaise(calls, exc) ==
    [outcome |-> exc, ret |-> <<>>, calls |-> calls, logs |-> <<"retrying">>,
     iters |-> <<>>]
SearchGiveUp(calls, exc) ==
    [outcome |-> "ok", ret |-> <<>>, calls |-> calls,
     logs |-> <<"retrying", "failed_again">>, iters |-> <<>>]

(* try / except (ResponseHandlingException, UnexpectedResponse) / retry *)
SearchAttempts(target, args, faults) ==
    LET first == Resp(faults, 1)
        retry == Resp(faults, 2)
        q1 == Call("search", target, args, first)
        q2 == Call("search", target, args, retry)
    IN IF first = "ok"
       THEN [outcome |-> "ok", ret |-> <<"search_result">>, calls |-> <<q1>>,
             logs |-> <<>>, iters |-> <<>>]
       ELSE IF retry = "ok"
       THEN [outcome |-> "ok", ret |-> <<"search_result">>, calls |-> <<q1, q2>>,
             logs |-> <<"retrying">>, iters |-> <<>>]
       ELSE SearchGiveUp(<<q1, q2>>, retry)

search_result(query_vector, limit, query_filter, name, with_vectors, score_threshold, faults) ==
    IF Truthy(name)
    THEN SearchAttempts(name, SearchArgsExplicit(query_vector, limit, query_filter,
                                                 with_vectors, score_threshold), faults)
    ELSE IF Truthy(collection_name)
    THEN SearchAttempts(collection_name,
                        SearchArgsActive(query_vector, limit, query_filter,
                                         with_vectors, score_threshold), faults)
    ELSE Raised(CollectionNameNotProvidedException)

SearchResponses ==
    {<<"ok">>} \cup {<<f, "ok">> : f \in Failures}
               \cup {<<f, g>> : f \in Failures, g \in Failures}

search ==
    /\ pc = "idle"
    /\ \E query_vector \in QueryVectors, limit \in Limits, query_filter \in Filters,
          name \in NameArgs, with_vectors \in BOOLEAN,
          score_threshold \in ScoreThresholds, faults \in SearchResponses :
         last' = Journal("search",
                         [query_vector |-> query_vector, limit |-> limit,
                          query_filter |-> query_filter, collection_name |-> name,
                          with_vectors |-> with_vectors,
                          score_threshold |-> score_threshold],
                         search_result(query_vector, limit, query_filter, name,
                                       with_vectors, score_threshold, faults))
    /\ pc' = "done"
    /\ UNCHANGED <<collection_name, distance, vector_size, print_logs, exists, prev_created>>

----------------------------------------------------------------------------
(* filter_search *)
filter_search_result(scroll_filter, name, limit, with_vectors, fault) ==
    LET Scroll(target) ==
            [outcome |-> fault,
             ret |-> IF fault = "ok" THEN <<"filtered_points">> ELSE <<>>,
             calls |-> <<Call("scroll", target,
                              [scroll_filter |-> scroll_filter, limit |-> limit,
                               with_vectors |-> with_vectors], fault)>>,
             logs |-> <<>>, iters |-> <<>>]
    IN IF Truthy(name) THEN Scroll(name)
       ELSE IF Truthy(collection_name) THEN Scroll(collection_name)
       ELSE Raised(CollectionNameNotProvidedException)

filter_search ==
    /\ pc = "idle"
    /\ \E scroll_filter \in Filters, name \in NameArgs, limit \in Limits,
          with_vectors \in BOOLEAN, fault \in Responses :
         last' = Journal("filter_search",
                         [scroll_filter |-> scroll_filter, collection_name |-> name,
                          limit |-> limit, with_vectors |-> with_vectors],
                         filter_search_result(scroll_filter, name, limit, with_vectors, fault))
    /\ pc' = "done"
    /\ UNCHANGED <<collection_name, distance, vector_size, print_logs, exists, prev_created>>

----------------------------------------------------------------------------
(* delete_collection *)
delete_collection_result(name, fault) ==
    LET Delete(target) ==
            [outcome |-> fault, ret |-> <<>>,
             calls |-> <<Call("delete_collection", target, <<>>, fault)>>,
             logs |-> IF fault = "ok" /\ print_logs THEN <<"deleted">> ELSE <<>>,
             iters |-> <<>>]
    IN IF Truthy(name) THEN Delete(name)
       ELSE IF Truthy(collection_name) THEN Delete(collection_name)
       ELSE Raised(CollectionNameNotProvidedException)

(* self.collection_name = None, reached when nothing was raised before *)
ActiveAfterDeleteIfSame(r) ==
    IF r.outcome = "ok" /\ r.calls[1].collection_name = collection_name
    THEN None ELSE collection_name
ActiveAfterDelete(r) ==
    IF r.outcome = "ok" THEN None ELSE collection_name

delete_collection ==
    /\ pc = "idle"
    /\ \E name \in NameArgs, fault \in Responses :
         LET r == delete_collection_result(name, fault) IN
           /\ last' = Journal("delete_collection", [collection_name |-> name], r)
           /\ exists' = IF r.outcome = "ok"
                        THEN exists \ {r.calls[1].collection_name} ELSE exists
           /\ collection_name' = ActiveAfterDelete(r)
    /\ pc' = "done"
    /\ UNCHANGED <<distance, vector_size, print_logs, prev_created>>

----------------------------------------------------------------------------
(* delete_data *)
Selectors == {None, "f"}

delete_data_result(filter, name, fault) ==
    LET Delete(target) ==
            [outcome |-> fault, ret |-> <<>>,
             calls |-> <<Call("delete", target, [points_selector |-> filter], fault)>>,
             logs |-> IF fault = "ok" /\ print_logs THEN <<"data_deleted">> ELSE <<>>,
             iters |-> <<>>]
    IN IF Truthy(name) THEN Delete(name)
       ELSE IF Truthy(collection_name) THEN Delete(collection_name)
       ELSE Raised(CollectionNameNotProvidedException)

delete_data ==
    /\ pc = "idle"
    /\ \E filter \in Selectors, name \in NameArgs, fault \in Responses :
         last' = Journal("delete_data", [filter |-> filter, collection_name |-> name],
                         delete_data_result(filter, name, fault))
    /\ pc' = "done"
    /\ UNCHANGED <<collection_name, distance, vector_size, print_logs, exists, prev_created>>

----------------------------------------------------------------------------
(* create_meta_index: no collection_name parameter, no local guard *)
FieldNames == {"city"}
FieldTypes == {"keyword", "integer"}

create_meta_index_result(field_name, field_type, fault) ==
    [outcome |-> fault, ret |-> <<>>,
     calls |-> <<Call("create_payload_index", collection_name,
                      [field_name |-> field_name, field_type |-> field_type], fault)>>,
     logs |-> IF fault = "ok" /\ print_logs THEN <<"index_created">> ELSE <<>>,
     iters |-> <<>>]

create_meta_index ==
    /\ pc = "idle"
    /\ \E field_name \in FieldNames, field_type \in FieldTypes, fault \in Responses :
         last' = Journal("create_meta_index",
                         [field_name |-> field_name, field_type |-> field_type],
                         create_meta_index_result(field_name, field_type, fault))
    /\ pc' = "done"
    /\ UNCHANGED <<collection_name, distance, vector_size, print_logs, exists, prev_created>>

----------------------------------------------------------------------------
(* the caller takes the result; the instance is ready for the next call *)
Return ==
    /\ pc = "done"
    /\ pc' = "idle"
    /\ prev_created' = IF last.op = "create_collection" /\ last.outcome = "ok"
                       THEN last.args.collection_name ELSE None
    /\ last' = NoCall
    /\ UNCHANGED <<collection_name, distance, vector_size, print_logs, exists>>

Next ==
    \/ create_collection
    \/ upsert_data
    \/ upsert_data_batches
    \/ search
    \/ filter_search
    \/ delete_collection
    \/ delete_data
    \/ create_meta_index
    \/ Return

Spec == Init /\ [][Next]_vars
----------------------------------------------------------------------------
(* Properties *)

Done(op) == pc = "done" /\ last.op = op

NamedOps == {"upsert_data", "upsert_data_batches", "search", "filter_search",
             "delete_collection", "delete_data"}
ScopedOps == NamedOps \cup {"create_meta_index"}

(* the explicit per-call name of the finished call, None when the method has none *)
ExplicitName == IF last.op \in NamedOps THEN last.args.collection_name ELSE None

AllCallsTarget(name) == \A j \in 1..Len(last.calls) : last.calls[j].collection_name = name

(* ids of the points of the backend upserts that succeeded, in call order *)
RECURSIVE OkIds(_)
OkIds(calls) ==
    IF calls = <<>> THEN <<>>
    ELSE (IF Head(calls).result = "ok" THEN PointIds(Head(calls).args.points) ELSE <<>>)
         \o OkIds(Tail(calls))

AllOk(calls) == \A j \in 1..Len(calls) : calls[j].result = "ok"

(* C1: every collection-scoped operation targets the explicit per-call name *)
(* when one is given, otherwise the active collection, and when neither is  *)
(* available raises CollectionNameNotProvidedException without any backend  *)
(* call.                                                                    *)
C1_ResolutionPrecedence ==
    (pc = "done" /\ last.op \in ScopedOps) =>
        IF Truthy(ExplicitName) THEN AllCallsTarget(ExplicitName)
        ELSE IF Truthy(last.active) THEN AllCallsTarget(last.active)
        ELSE last.outcome = CollectionNameNotProvidedException /\ last.calls = <<>>

(* C2: with a target collection and a backend that answers every upsert,    *)
(* upsert_data_batches(P, b), b >= 1, submits ceil(|P|/b) chunks of at most *)
(* b points, the consecutive slices of P, and returns the ids of P in the   *)
(* order of P.                                                              *)
C2_BatchPartition ==
    (/\ Done("upsert_data_batches")
     /\ last.args.batch_size >= 1
     /\ Truthy(ExplicitName) \/ Truthy(last.active)
     /\ AllOk(last.calls)) =>
        LET P == last.args.pointStructs
            b == last.args.batch_size
        IN /\ last.outcome = "ok"
           /\ Len(last.calls) = (Len(P) + b - 1) \div b
           /\ \A j \in 1..Len(last.calls) :
                /\ Len(last.calls[j].args.points) <= b
                /\ last.calls[j].args.points = SubSeq(P, (j - 1) * b + 1, Min(j * b, Len(P)))
           /\ last.ret = PointIds(P)

C2_Witness ==
    /\ Done("upsert_data_batches")
    /\ Len(last.args.pointStructs) = MaxPoints
    /\ last.args.batch_size = 2
    /\ last.args.pointStructs[1].id # last.args.pointStructs[2].id
    /\ AllOk(last.calls)
    /\ Len(last.calls) = (MaxPoints + 1) \div 2
    /\ last.ret = PointIds(last.args.pointStructs)

(* the first attempt and the retry of the chunk starting at i both failed *)
(* with ResponseHandlingException; they are calls j and j+1               *)
FailedTwiceAt(j) ==
    /\ j + 1 <= Len(last.calls)
    /\ last.iters[j] = last.iters[j + 1]
    /\ last.calls[j].result = ResponseHandlingException
    /\ last.calls[j + 1].result = ResponseHandlingException

(* C3: when the first attempt and the retry of a chunk both fail with a    *)
(* transient failure, upsert_data_batches returns exactly the ids of the   *)
(* chunks before it and submits no later chunk.                            *)
C3_ShortCircuit ==
    Done("upsert_data_batches") =>
        \A j \in 1..Len(last.calls) :
            FailedTwiceAt(j) =>
                /\ Len(last.calls) = j + 1
                /\ last.outcome = "ok"
                /\ last.ret = PointIds(SubSeq(last.args.pointStructs, 1, last.iters[j]))
                /\ \A k \in 1..Len(last.calls) : last.iters[k] <= last.iters[j]

C3_Witness ==
    /\ Done("upsert_data_batches")
    /\ last.args.batch_size = 1
    /\ Len(last.args.pointStructs) = MaxPoints
    /\ Len(last.calls) = 3
    /\ FailedTwiceAt(2)
    /\ last.ret = <<last.args.pointStructs[1].id>>

(* C4: a search whose target resolves and whose first attempt and retry   *)
(* both fail (transient or unexpected response) returns an empty sequence *)
(* and does not raise.                                                    *)
C4_SearchDegradesToEmpty ==
    (/\ Done("search")
     /\ Len(last.calls) >= 2
     /\ last.calls[1].result \in Failures
     /\ last.calls[2].result \in Failures) =>
        last.outcome = "ok" /\ last.ret = <<>>

C4_Witness ==
    /\ Done("search")
    /\ Len(last.calls) = 2
    /\ last.calls[1].result = ResponseHandlingException
    /\ last.calls[2].result = UnexpectedResponse
    /\ last.outcome = "ok"
    /\ last.ret = <<>>

(* C5: after a delete_collection call that resolved a target name and     *)
(* returned, the active collection is unset, whether the name was left    *)
(* out, given and equal to the active collection, or given and different. *)
C5_DeleteClearsActive ==
    (Done("delete_collection") /\ last.outcome = "ok") => collection_name = None

C5_Witness ==
    /\ Done("delete_collection")
    /\ last.outcome = "ok"
    /\ Truthy(last.active)
    /\ Truthy(last.args.collection_name)
    /\ last.args.collection_name # last.active
    /\ collection_name = None

(* C6: create_collection(n) directly after a successful create_collection(n) *)
(* raises CollectionAlreadyExistsException whenever the service answers the  *)
(* request.                                                                  *)
C6_CreateTwice ==
    (/\ Done("create_collection")
     /\ prev_created # None
     /\ last.args.collection_name = prev_created
     /\ last.calls[1].result # ResponseHandlingException) =>
        last.outcome = CollectionAlreadyExistsException

C6_Witness ==
    /\ Done("create_collection")
    /\ prev_created = "a"
    /\ last.args.collection_name = "a"
    /\ last.calls[1].result = UnexpectedResponse
    /\ last.outcome = CollectionAlreadyExistsException

(* C7: on an instance constructed with logging disabled no operation and *)
(* no outcome of it calls the log sink.                                   *)
C7_NoLogWhenDisabled ==
    (pc = "done" /\ ~print_logs) => last.logs = <<>>

(* C8: every backend query of a search carries the caller's query_vector, *)
(* limit, filter, with_vectors and score_threshold, on the first attempt  *)
(* and on the retry, with an explicit name and with the active collection *)
C8_SearchForwardsArgs ==
    Done("search") =>
        \A j \in 1..Len(last.calls) :
            /\ last.calls[j].args.query_vector = last.args.query_vector
            /\ last.calls[j].args.limit = last.args.limit
            /\ last.calls[j].args.query_filter = last.args.query_filter
            /\ last.calls[j].args.with_vectors = last.args.with_vectors
            /\ last.calls[j].args.score_threshold = <<last.args.score_threshold>>
            /\ last.calls[j].args = last.calls[1].args

(* C9: create_collection requests the distance and vector size given in   *)
(* the call, and the instance's defaults when the call leaves them out.   *)
C9_CreateUsesInstanceDefaults ==
    (Done("create_collection") /\ last.calls # <<>>) =>
        /\ last.calls[1].args.distance =
              IF last.args.distance = <<>> THEN distance ELSE last.args.distance[1]
        /\ last.calls[1].args.size =
              IF last.args.vector_size = <<>> THEN vector_size ELSE last.args.vector_size[1]

(* C10: a transient failure is retried exactly once and only in           *)
(* upsert_data_batches and search.  Each chunk is submitted at most twice, *)
(* the second time only directly after a transient failure of the first;  *)
(* a chunk that succeeds on its retry contributes its ids once and the    *)
(* next chunk follows; search issues at most two queries; every other     *)
(* operation issues one backend call and its failure propagates.          *)
C10_RetryDiscipline ==
    pc = "done" =>
        LET c == last.calls
            it == last.iters
        IN /\ last.op = "upsert_data_batches" =>
                /\ Len(it) = Len(c)
                /\ \A j \in 1..Len(c) :
                      Cardinality({k \in 1..Len(c) : it[k] = it[j]}) <= 2
                /\ \A j \in 2..Len(c) :
                      /\ it[j - 1] <= it[j]
                      /\ it[j] = it[j - 1] =>
                            c[j - 1].result = ResponseHandlingException
                      /\ (it[j] = it[j - 1] /\ c[j].result = "ok"
                          /\ it[j] + last.args.batch_size < Len(last.args.pointStructs)) =>
                            (j < Len(c) /\ it[j + 1] = it[j] + last.args.batch_size)
                /\ \A j \in 1..Len(c) :
                      (c[j].result = ResponseHandlingException
                       /\ (j = 1 \/ it[j - 1] # it[j])) =>
                            (j < Len(c) /\ it[j + 1] = it[j])
                /\ last.outcome = "ok" => last.ret = OkIds(c)
           /\ last.op = "search" =>
                /\ Len(c) <= 2
                /\ Len(c) = 2 => c[1].result \in Failures
           /\ last.op \in {"create_collection", "upsert_data", "filter_search",
                           "delete_collection", "delete_data", "create_meta_index"} =>
                /\ Len(c) <= 1
                /\ Len(c) = 1 <=> last.outcome # CollectionNameNotProvidedException
                /\ (Len(c) = 1 /\ c[1].result # "ok") => last.outcome # "ok"
                /\ (Len(c) = 1 /\ c[1].result = ResponseHandlingException) =>
                      last.outcome = ResponseHandlingException

C10_Witness ==
    /\ Done("upsert_data_batches")
    /\ last.args.batch_size = 1
    /\ Len(last.calls) = 3
    /\ last.calls[1].result = ResponseHandlingException
    /\ last.calls[2].result = "ok"
    /\ last.calls[3].result = "ok"
    /\ last.iters = <<0, 0, 1>>
    /\ last.ret = PointIds(last.args.pointStructs)
====
